---- MODULE Spec2Model ----
(***************************************************************************)
(* SpiTransport (src/sdcard/transport.rs): the SD card transport built on  *)
(* an embedded-hal SpiDevice<u8>.  The model records every call the        *)
(* transport makes on the SPI device (function, bytes sent, outcome), the  *)
(* bytes the device drove back, and what each Transport operation          *)
(* returned.                                                               *)
(*                                                                         *)
(* Integers wider than 16 bits (u32, u128) are kept as sequences of 16-bit *)
(* limbs, most significant limb first, so that no value leaves the range   *)
(* of the model checker's integers: 0x000001AA is <<0, 426>>.              *)
(***************************************************************************)
EXTENDS Integers, Sequences, FiniteSets, TLC

VARIABLES pc, op, inp, rx, ret, buf, i, wire, hist

vars == <<pc, op, inp, rx, ret, buf, i, wire, hist>>

-----------------------------------------------------------------------------
(* Bounds of the model and sample inputs.                                  *)

\* Longest caller buffer handed to write_data / read_data.
MaxLen == 2

\* How many of the sample byte values the wide input sets draw from.
NumSample == 4

\* Operations invoked in one session (SpecSession).
MaxOps == 2

Byte == 0..255

AllSamples == <<255, 0, 1, 254, 170, 85, 128, 127>>

SampleBytes == {AllSamples[k] : k \in 1..NumSample}

\* 16-bit halves of the sample command arguments.
SampleLimbs == {0, 426, 4660, 22136, 32768, 65535}

SampleArgs == {<<h, l>> : h \in SampleLimbs, l \in SampleLimbs}

SeqsOfLen(S, n) == [1..n -> S]

SeqsUpTo(S, n) == UNION {SeqsOfLen(S, k) : k \in 0..n}

\* 16 received bytes: one byte v at position p over a background w, and a ramp.
Sample16 ==
  {[j \in 1..16 |-> IF j = p THEN v ELSE w] :
      p \in 1..16, v \in SampleBytes, w \in SampleBytes}
  \cup {[j \in 1..16 |-> j - 1]}

\* The error values of the SPI device (SPI::Error is opaque to the transport).
Errors == {"E1", "E2"}

Outcomes == {"ok"} \cup Errors

-----------------------------------------------------------------------------
(* u8 arithmetic.                                                          *)

RECURSIVE Or(_, _)
Or(a, b) ==
  IF a = 0 THEN b
  ELSE IF b = 0 THEN a
  ELSE (IF a % 2 = 1 \/ b % 2 = 1 THEN 1 ELSE 0) + 2 * Or(a \div 2, b \div 2)

RECURSIVE Xor(_, _)
Xor(a, b) ==
  IF a = 0 THEN b
  ELSE IF b = 0 THEN a
  ELSE ((a + b) % 2) + 2 * Xor(a \div 2, b \div 2)

Pow2(n) == 2 ^ n

\* arg >> n on a u32 held as <<high 16 bits, low 16 bits>>, 0 <= n < 32.
Shr32(a, n) ==
  IF n >= 16
  THEN <<0, a[1] \div Pow2(n - 16)>>
  ELSE <<a[1] \div Pow2(n), (a[1] % Pow2(n)) * Pow2(16 - n) + a[2] \div Pow2(n)>>

\* `x as u8`: the low 8 bits.
AsU8(a) == a[Len(a)] % 256

\* Variant: byte 1 taken as the least significant (from_le_bytes).
from_le_bytes(b) ==
  [k \in 1..(Len(b) \div 2) |->
     b[Len(b) - 2 * k + 2] * 256 + b[Len(b) - 2 * k + 1]]

\* uN::from_be_bytes: byte 1 is the most significant.
from_be_bytes(b) == [k \in 1..(Len(b) \div 2) |-> b[2 * k - 1] * 256 + b[2 * k]]

-----------------------------------------------------------------------------
(* crc7 (imported by `use super::crc7`): the SD command-frame CRC7,        *)
(* polynomial x^7 + x^3 + 1, initial value 0, most significant bit first,  *)
(* remainder in bits 7..1 and the stop bit in bit 0.                       *)

Crc7Bit(crc, bit) ==
  LET shifted == (crc * 2) % 128
  IN  IF Xor(crc \div 64, bit) = 1 THEN Xor(shifted, 9) ELSE shifted

\* Bit k (0 = first on the wire) of the byte sequence, most significant bit first.
DataBit(data, k) == (data[(k \div 8) + 1] \div Pow2(7 - (k % 8))) % 2

\* The 7-bit register after all bits of data, from register crc before bit n.
Crc7Reg(data) ==
  LET run[n \in 0..(8 * Len(data)), crc \in 0..127] ==
        IF n = 8 * Len(data) THEN crc
        ELSE run[n + 1, Crc7Bit(crc, DataBit(data, n))]
  IN  run[0, 0]

crc7(data) == Or(Crc7Reg(data) * 2, 1)

-----------------------------------------------------------------------------
(* Values.                                                                 *)

Ok(v) == [tag |-> "Ok", val |-> v, err |-> "none"]

Err(e) == [tag |-> "Err", val |-> "none", err |-> e]

Pending == [tag |-> "Pending", val |-> "none", err |-> "none"]

\* `?` / returning the device's Result: the error unchanged, else the value.
Try(r, v) == IF r = "ok" THEN Ok(v) ELSE Err(r)

NoArgs == [command |-> 0, arg |-> <<0, 0>>, buf |-> <<>>]

\* One call on the SPI device as the device saw it.
SpiCall(fn, mosi, rlen, r) == [fn |-> fn, mosi |-> mosi, rlen |-> rlen, res |-> r]

Fill(n, v) == [j \in 1..n |-> v]

\* The calls the operation in progress (or the last one) has made so far.
Calls ==
  IF hist = <<>> THEN <<>>
  ELSE SubSeq(wire, hist[Len(hist)].from + 1, Len(wire))

-----------------------------------------------------------------------------
(* The transport's operations.  Each action takes the operation's          *)
(* arguments and what the SPI device does during the call: the bytes it    *)
(* drives back (miso) and whether the call succeeds (r = "ok") or fails    *)
(* with an error r.                                                        *)

Init ==
  /\ pc = "idle"
  /\ op = "none"
  /\ inp = NoArgs
  /\ rx = <<>>
  /\ ret = Pending
  /\ buf = <<>>
  /\ i = 0
  /\ wire = <<>>
  /\ hist = <<>>

\* A Transport method is entered with arguments a.
Enter(name, a) ==
  /\ pc = "idle"
  /\ op' = name
  /\ inp' = a
  /\ hist' = Append(hist, [op |-> name, inp |-> a, from |-> Len(wire)])

\* A method that makes one call on the device and returns.
Return(call, miso, result, b) ==
  /\ wire' = Append(wire, call)
  /\ rx' = miso
  /\ ret' = result
  /\ buf' = b
  /\ i' = 0
  /\ pc' = "idle"

\* Variant: the argument laid out least significant byte first.
CommandFrameLE(command, arg) ==
  LET b == <<Or(64, command),
             AsU8(arg),
             AsU8(Shr32(arg, 8)),
             AsU8(Shr32(arg, 16)),
             AsU8(Shr32(arg, 24)),
             0>>
  IN  [b EXCEPT ![6] = crc7(SubSeq(b, 1, 5))]

\* Variant: the checksum taken over buf[0..4], one byte short.
CommandFrameCrcShort(command, arg) ==
  LET b == <<Or(64, command),
             AsU8(Shr32(arg, 24)),
             AsU8(Shr32(arg, 16)),
             AsU8(Shr32(arg, 8)),
             AsU8(arg),
             0>>
  IN  [b EXCEPT ![6] = crc7(SubSeq(b, 1, 4))]

\* buf of write_card_command: [0x40 | command, arg big-endian, crc7(buf[0..5])].
CommandFrame(command, arg) ==
  LET b == <<Or(64, command),
             AsU8(Shr32(arg, 24)),
             AsU8(Shr32(arg, 16)),
             AsU8(Shr32(arg, 8)),
             AsU8(arg),
             0>>
  IN  [b EXCEPT ![6] = crc7(SubSeq(b, 1, 5))]

write_card_command(command, arg, r) ==
  /\ Enter("write_card_command", [NoArgs EXCEPT !.command = command, !.arg = arg])
  /\ Return(SpiCall("write", CommandFrame(command, arg), 0, r),
            <<>>, Try(r, "unit"), <<>>)

read_card_response_u8(miso, r) ==
  /\ Enter("read_card_response_u8", NoArgs)
  /\ Return(SpiCall("transfer", <<255>>, 1, r), miso, Try(r, miso[1]), <<>>)

read_card_response_u32(miso, r) ==
  /\ Enter("read_card_response_u32", NoArgs)
  /\ Return(SpiCall("transfer", Fill(4, 255), 4, r),
            miso, Try(r, from_be_bytes(miso)), <<>>)

read_card_response_u128(miso, r) ==
  /\ Enter("read_card_response_u128", NoArgs)
  /\ Return(SpiCall("transfer", Fill(16, 255), 16, r),
            miso, Try(r, from_be_bytes(miso)), <<>>)

\* Variant: a data start token sent ahead of the caller's bytes.
write_data_token(b, r) ==
  /\ Enter("write_data", [NoArgs EXCEPT !.buf = b])
  /\ Return(SpiCall("write", <<254>> \o b, 0, r), <<>>, Try(r, "unit"), b)

\* Variant: a transport that remembers a failure and refuses the next write
\* without calling the device.
write_data_sticky(b, r) ==
  /\ Enter("write_data", [NoArgs EXCEPT !.buf = b])
  /\ IF ret.tag = "Err"
     THEN /\ UNCHANGED <<wire, ret>>
          /\ rx' = <<>>
          /\ buf' = b
          /\ i' = 0
          /\ pc' = "idle"
     ELSE Return(SpiCall("write", b, 0, r), <<>>, Try(r, "unit"), b)

write_data(b, r) ==
  /\ Enter("write_data", [NoArgs EXCEPT !.buf = b])
  /\ Return(SpiCall("write", b, 0, r), <<>>, Try(r, "unit"), b)

\* Variant: the buffer left as the caller passed it.
fill_skipped(b, value) == b

\* buf.fill(value)
fill(b, value) == [j \in 1..Len(b) |-> value]

\* The device writes what it received over the caller's buffer; after a failed
\* call the buffer holds whatever the device left there (miso as well).
read_data(b, miso, r) ==
  /\ Enter("read_data", [NoArgs EXCEPT !.buf = b])
  /\ Return(SpiCall("transfer_in_place", fill(b, 255), Len(b), r),
            miso, Try(r, "unit"), miso)

\* transfer_byte: one transfer of one byte; the byte read, or the error.
transfer_byte(byte, miso, r) ==
  [call |-> SpiCall("transfer", <<byte>>, 1, r),
   rx   |-> miso,
   ret  |-> Try(r, miso[1])]

FlushCount == 255

\* flush_card is entered; its loop runs in flush_iter.
flush_card ==
  /\ Enter("flush_card", NoArgs)
  /\ pc' = "flush_card"
  /\ i' = 0
  /\ ret' = Pending
  /\ rx' = <<>>
  /\ buf' = <<>>
  /\ UNCHANGED wire

\* Variant: the error of an exchange dropped and the loop carried on.
flush_iter_ignoring(miso, r) ==
  /\ pc = "flush_card"
  /\ i < FlushCount
  /\ LET t == transfer_byte(255, miso, r)
     IN  /\ wire' = Append(wire, t.call)
         /\ rx' = t.rx
         /\ i' = i + 1
         /\ pc' = IF i + 1 < FlushCount THEN "flush_card" ELSE "idle"
         /\ ret' = IF i + 1 < FlushCount THEN Pending ELSE Ok("unit")
  /\ UNCHANGED <<op, inp, buf, hist>>

\* Variant: the loop left as soon as the card answers 0xFF.
flush_iter_until_idle(miso, r) ==
  /\ pc = "flush_card"
  /\ i < FlushCount
  /\ LET t == transfer_byte(255, miso, r)
         last == i + 1 >= FlushCount \/ miso = <<255>>
     IN  /\ wire' = Append(wire, t.call)
         /\ rx' = t.rx
         /\ IF t.ret.tag = "Err"
            THEN /\ ret' = t.ret
                 /\ pc' = "idle"
                 /\ i' = i
            ELSE /\ i' = i + 1
                 /\ pc' = IF last THEN "idle" ELSE "flush_card"
                 /\ ret' = IF last THEN Ok("unit") ELSE Pending
  /\ UNCHANGED <<op, inp, buf, hist>>

\* One iteration of `for _ in 0..0xFF { self.transfer_byte(0xFF)?; }`, and the
\* Ok(()) after the last one.
flush_iter(miso, r) ==
  /\ pc = "flush_card"
  /\ i < FlushCount
  /\ LET t == transfer_byte(255, miso, r)
     IN  /\ wire' = Append(wire, t.call)
         /\ rx' = t.rx
         /\ IF t.ret.tag = "Err"
            THEN /\ ret' = t.ret
                 /\ pc' = "idle"
                 /\ i' = i
            ELSE /\ i' = i + 1
                 /\ pc' = IF i + 1 < FlushCount THEN "flush_card" ELSE "idle"
                 /\ ret' = IF i + 1 < FlushCount THEN Pending ELSE Ok("unit")
  /\ UNCHANGED <<op, inp, buf, hist>>

\* Variant: busy only while the card holds the line at 0x00.
BusyMatchZero(byte) == IF byte = 0 THEN TRUE ELSE FALSE

\* match byte { 0xFF => Ok(false), _ => Ok(true) }
BusyMatch(byte) == IF byte = 255 THEN FALSE ELSE TRUE

is_busy(miso, r) ==
  /\ Enter("is_busy", NoArgs)
  /\ LET t == transfer_byte(255, miso, r)
     IN  Return(t.call, t.rx,
                IF t.ret.tag = "Err" THEN t.ret ELSE Ok(BusyMatch(t.ret.val)),
                <<>>)

-----------------------------------------------------------------------------
(* Spec: one operation on a fresh transport, its inputs and the device's   *)
(* answers drawn from the wide sets.                                       *)

Fresh == hist = <<>>

\* The flush loop's next exchange, whatever the card answers.
FlushLoop ==
  \E miso \in SeqsOfLen(SampleBytes, 1), r \in Outcomes : flush_iter(miso, r)

Next ==
  \/ /\ Fresh
     /\ \E command \in Byte, arg \in SampleArgs, r \in Outcomes :
          write_card_command(command, arg, r)
  \/ /\ Fresh
     /\ \E miso \in SeqsOfLen(Byte, 1), r \in Outcomes :
          read_card_response_u8(miso, r)
  \/ /\ Fresh
     /\ \E miso \in SeqsOfLen(SampleBytes, 4), r \in Outcomes :
          read_card_response_u32(miso, r)
  \/ /\ Fresh
     /\ \E miso \in Sample16, r \in Outcomes :
          read_card_response_u128(miso, r)
  \/ /\ Fresh
     /\ \E b \in SeqsUpTo(SampleBytes, MaxLen), r \in Outcomes :
          write_data(b, r)
  \/ /\ Fresh
     /\ \E b \in SeqsUpTo(SampleBytes, MaxLen), r \in Outcomes :
          \E miso \in SeqsOfLen(SampleBytes, Len(b)) :
            read_data(b, miso, r)
  \/ /\ Fresh
     /\ flush_card
  \/ FlushLoop
  \/ /\ Fresh
     /\ \E miso \in SeqsOfLen(Byte, 1), r \in Outcomes :
          is_busy(miso, r)

Spec == Init /\ [][Next]_vars

-----------------------------------------------------------------------------
(* SpecSession: up to MaxOps operations in a row on one transport, with    *)
(* few inputs each; the device may fail any call, a flush exchange only at *)
(* the iterations in SessionFaultAt.                                       *)

SessionCommands == {0, 17}

SessionArgs == {<<0, 426>>}

SessionBytes == {255, 0}

SessionBufs == {<<>>, <<1, 2>>}

SessionErrors == {"E1"}

SessionOutcomes == {"ok"} \cup SessionErrors

SessionFaultAt == {0, 1, 254}

More == Len(hist) < MaxOps

NextSession ==
  \/ /\ More
     /\ \E command \in SessionCommands, arg \in SessionArgs, r \in SessionOutcomes :
          write_card_command(command, arg, r)
  \/ /\ More
     /\ \E miso \in SeqsOfLen(SessionBytes, 1), r \in SessionOutcomes :
          read_card_response_u8(miso, r)
  \/ /\ More
     /\ \E miso \in {<<0, 0, 1, 0>>}, r \in SessionOutcomes :
          read_card_response_u32(miso, r)
  \/ /\ More
     /\ \E miso \in {[j \in 1..16 |-> j]}, r \in SessionOutcomes :
          read_card_response_u128(miso, r)
  \/ /\ More
     /\ \E b \in SessionBufs, r \in SessionOutcomes :
          write_data(b, r)
  \/ /\ More
     /\ \E b \in SessionBufs, r \in SessionOutcomes :
          \E miso \in {fill(b, 0)} :
            read_data(b, miso, r)
  \/ /\ More
     /\ flush_card
  \/ \E miso \in {<<255>>} :
       \E r \in (IF i \in SessionFaultAt THEN SessionOutcomes ELSE {"ok"}) :
         flush_iter(miso, r)
  \/ /\ More
     /\ \E miso \in SeqsOfLen(SessionBytes, 1), r \in SessionOutcomes :
          is_busy(miso, r)

SpecSession == Init /\ [][NextSession]_vars

-----------------------------------------------------------------------------
(* Properties.                                                             *)

\* The last operation has returned.
Returned == hist # <<>> /\ pc = "idle"

\* Every call made so far by the current operation succeeded.
NoFault == \A k \in 1..Len(Calls) : Calls[k].res = "ok"

AllFF(bytes) == \A k \in 1..Len(bytes) : bytes[k] = 255

\* Byte k (0 = least significant) of an integer held as 16-bit limbs:
\* (v >> 8k) & 0xFF.
ByteOf(v, k) ==
  (v[Len(v) - (k \div 2)] \div (IF k % 2 = 0 THEN 1 ELSE 256)) % 256

\* The integer v, read least significant byte first, is the byte sequence
\* bytes read last byte first.
IsBigEndianOf(v, bytes) ==
  /\ 2 * Len(v) = Len(bytes)
  /\ \A k \in 1..Len(v) : v[k] \in 0..65535
  /\ \A k \in 0..(Len(bytes) - 1) : ByteOf(v, k) = bytes[Len(bytes) - k]

\* One call of function fn sending mosi and reading rlen bytes was made.
OneCall(fn, mosi, rlen) ==
  /\ Len(Calls) = 1
  /\ Calls[1].fn = fn
  /\ Calls[1].mosi = mosi
  /\ Calls[1].rlen = rlen

\* C1: for a command index in 0..63 and any argument, write_card_command
\* makes exactly one write-only call whose payload is 6 bytes: 0x40 | index,
\* the argument most significant byte first, and the crc7 of those 5 bytes.
C1_CommandFrame ==
  (op = "write_card_command" /\ inp.command \in 0..63) =>
    /\ Len(Calls) = 1
    /\ Calls[1].fn = "write"
    /\ Calls[1].rlen = 0
    /\ LET f == Calls[1].mosi
       IN  /\ Len(f) = 6
           /\ \A k \in 1..6 : f[k] \in Byte
           /\ f[1] = 64 + (inp.command % 64)
           /\ f[2] * 256 + f[3] = inp.arg[1]
           /\ f[4] * 256 + f[5] = inp.arg[2]
           /\ f[6] = crc7(SubSeq(f, 1, 5))

\* CMD63 with argument 0x12345678 was written.
C1_Witness ==
  /\ op = "write_card_command"
  /\ inp.command = 63
  /\ inp.arg = <<4660, 22136>>
  /\ ret = Ok("unit")
  /\ Len(Calls) = 1
  /\ SubSeq(Calls[1].mosi, 1, 5) = <<127, 18, 52, 86, 120>>

\* C2: when a call on the SPI device fails with error e, the operation makes
\* no further call and returns exactly e; an operation returns an error only
\* if its last call failed.  For flush_card: the k-th exchange failing leaves
\* exactly k exchanges made.
C2_ErrorPropagation ==
  /\ \A k \in 1..Len(Calls) :
       Calls[k].res # "ok" =>
         /\ k = Len(Calls)
         /\ pc = "idle"
         /\ ret = Err(Calls[k].res)
  /\ ret.tag = "Err" =>
       /\ Calls # <<>>
       /\ ret.err = Calls[Len(Calls)].res
       /\ ret.err \in Errors

\* The 100th exchange of flush_card failed with E2.
C2_Witness ==
  /\ op = "flush_card"
  /\ Len(Calls) = 100
  /\ Calls[100].res = "E2"
  /\ ret = Err("E2")
  /\ pc = "idle"

\* C3: while no exchange fails, flush_card keeps exchanging single 0xFF
\* bytes, has returned exactly when 255 exchanges are made, and then returns
\* Ok(()), whatever bytes were read back.
C3_Flush ==
  (op = "flush_card" /\ NoFault) =>
    /\ Len(Calls) <= 255
    /\ \A k \in 1..Len(Calls) :
         /\ Calls[k].fn = "transfer"
         /\ Calls[k].mosi = <<255>>
         /\ Calls[k].rlen = 1
    /\ (pc = "idle") <=> (Len(Calls) = 255)
    /\ pc = "idle" => ret = Ok("unit")
    /\ pc # "idle" => (ret = Pending /\ ENABLED FlushLoop)

\* flush_card returned Ok(()) after 255 exchanges, the card's last answer
\* being 0x00.
C3_Witness ==
  /\ op = "flush_card"
  /\ pc = "idle"
  /\ NoFault
  /\ Len(Calls) = 255
  /\ rx = <<0>>
  /\ ret = Ok("unit")

\* C4: is_busy makes exactly one single-byte exchange sending 0xFF; when it
\* succeeds the result is false iff the byte read back is 0xFF.
C4_IsBusy ==
  op = "is_busy" =>
    /\ OneCall("transfer", <<255>>, 1)
    /\ NoFault =>
         /\ ret.tag = "Ok"
         /\ ret.val \in BOOLEAN
         /\ (ret.val = FALSE) <=> (rx = <<255>>)

\* is_busy read 0xFE and answered busy.
C4_Witness ==
  /\ op = "is_busy"
  /\ rx = <<254>>
  /\ ret = Ok(TRUE)

\* C5: read_card_response_u8 / _u32 / _u128 each make exactly one transfer
\* of 1 / 4 / 16 bytes sending only 0xFF, and on success return the
\* received bytes read as a big-endian unsigned integer; [0,0,1,0] is 256.
C5_ReadResponse ==
  /\ op = "read_card_response_u8" =>
       /\ OneCall("transfer", <<255>>, 1)
       /\ NoFault => (ret.tag = "Ok" /\ ret.val = rx[1] /\ Len(rx) = 1)
  /\ op = "read_card_response_u32" =>
       /\ OneCall("transfer", <<255, 255, 255, 255>>, 4)
       /\ NoFault => (ret.tag = "Ok" /\ Len(rx) = 4 /\ IsBigEndianOf(ret.val, rx))
       /\ (NoFault /\ rx = <<0, 0, 1, 0>>) => ret.val = <<0, 256>>
  /\ op = "read_card_response_u128" =>
       /\ OneCall("transfer", [k \in 1..16 |-> 255], 16)
       /\ NoFault => (ret.tag = "Ok" /\ Len(rx) = 16 /\ IsBigEndianOf(ret.val, rx))

\* read_card_response_u32 received 00 00 01 00 and returned 256.
C5_Witness ==
  /\ op = "read_card_response_u32"
  /\ rx = <<0, 0, 1, 0>>
  /\ ret = Ok(<<0, 256>>)

\* C6: read_data on a buffer of N bytes makes exactly one in-place transfer
\* whose outbound bytes are N bytes of 0xFF whatever the buffer held, and on
\* success the buffer holds the N bytes the card drove back; every call of
\* every read operation sends only 0xFF.
C6_Sentinel ==
  /\ op = "read_data" =>
       /\ OneCall("transfer_in_place", [k \in 1..Len(inp.buf) |-> 255], Len(inp.buf))
       /\ NoFault => (ret = Ok("unit") /\ buf = rx /\ Len(buf) = Len(inp.buf))
  /\ op \in {"read_card_response_u8", "read_card_response_u32",
             "read_card_response_u128", "read_data", "is_busy", "flush_card"} =>
       \A k \in 1..Len(Calls) : AllFF(Calls[k].mosi)

\* read_data on a buffer holding 00 01 sent FF FF and left FE 00 in it.
C6_Witness ==
  /\ op = "read_data"
  /\ inp.buf = <<0, 1>>
  /\ Len(Calls) = 1
  /\ Calls[1].mosi = <<255, 255>>
  /\ ret = Ok("unit")
  /\ buf = <<254, 0>>

\* C7: for every 8-bit command value, write_card_command reports no error
\* of its own, the first byte of the frame is 0x40 | (command & 0x3F) (top
\* two bits 01), and the last byte is the crc7 of the 5 bytes before it.
C7_FramingByte ==
  op = "write_card_command" =>
    /\ Len(Calls) = 1
    /\ Calls[1].res = "ok" => ret = Ok("unit")
    /\ LET f == Calls[1].mosi
       IN  /\ f[1] = 64 + (inp.command % 64)
           /\ f[1] \div 64 = 1
           /\ f[6] = crc7(SubSeq(f, 1, 5))

\* C8: write_card_command(0, 0) writes 40 00 00 00 00 95 and
\* write_card_command(8, 0x000001AA) writes 48 00 00 01 AA 87.
C8_KnownFrames ==
  /\ (op = "write_card_command" /\ inp.command = 0 /\ inp.arg = <<0, 0>>) =>
       (Len(Calls) = 1 /\ Calls[1].fn = "write"
          /\ Calls[1].mosi = <<64, 0, 0, 0, 0, 149>>)
  /\ (op = "write_card_command" /\ inp.command = 8 /\ inp.arg = <<0, 426>>) =>
       (Len(Calls) = 1 /\ Calls[1].fn = "write"
          /\ Calls[1].mosi = <<72, 0, 0, 1, 170, 135>>)

\* CMD8 with argument 0x000001AA was written.
C8_Witness ==
  /\ op = "write_card_command"
  /\ inp.command = 8
  /\ inp.arg = <<0, 426>>
  /\ ret = Ok("unit")
  /\ Calls[1].mosi = <<72, 0, 0, 1, 170, 135>>

\* C10: write_data makes exactly one write-only call whose payload is the
\* caller's bytes, unchanged and in order, for any buffer (the empty one
\* included), and leaves the caller's buffer as it was.
C10_WriteData ==
  op = "write_data" =>
    /\ OneCall("write", inp.buf, 0)
    /\ buf = inp.buf
    /\ NoFault => ret = Ok("unit")

\* write_data wrote the two bytes FE 01.
C10_Witness ==
  /\ op = "write_data"
  /\ inp.buf = <<254, 1>>
  /\ Len(Calls) = 1
  /\ Calls[1].mosi = <<254, 1>>
  /\ ret = Ok("unit")

\* The calls an operation makes when no call fails, from its name and its
\* own arguments alone.
FullCalls(name, a) ==
  CASE name = "write_card_command" ->
         <<[fn |-> "write", mosi |-> CommandFrame(a.command, a.arg), rlen |-> 0]>>
    [] name = "read_card_response_u8" ->
         <<[fn |-> "transfer", mosi |-> <<255>>, rlen |-> 1]>>
    [] name = "read_card_response_u32" ->
         <<[fn |-> "transfer", mosi |-> <<255, 255, 255, 255>>, rlen |-> 4]>>
    [] name = "read_card_response_u128" ->
         <<[fn |-> "transfer", mosi |-> [k \in 1..16 |-> 255], rlen |-> 16]>>
    [] name = "write_data" ->
         <<[fn |-> "write", mosi |-> a.buf, rlen |-> 0]>>
    [] name = "read_data" ->
         <<[fn |-> "transfer_in_place",
            mosi |-> [k \in 1..Len(a.buf) |-> 255], rlen |-> Len(a.buf)]>>
    [] name = "flush_card" ->
         [k \in 1..255 |-> [fn |-> "transfer", mosi |-> <<255>>, rlen |-> 1]]
    [] name = "is_busy" ->
         <<[fn |-> "transfer", mosi |-> <<255>>, rlen |-> 1]>>

\* What an operation returns, from its name, the bytes the device drove back
\* in its last call and that call's outcome.
ResultOf(name, miso, r) ==
  IF r # "ok" THEN Err(r)
  ELSE CASE name \in {"write_card_command", "write_data", "read_data", "flush_card"} ->
              Ok("unit")
         [] name = "read_card_response_u8" -> Ok(miso[1])
         [] name \in {"read_card_response_u32", "read_card_response_u128"} ->
              Ok([k \in 1..(Len(miso) \div 2) |-> miso[2 * k - 1] * 256 + miso[2 * k]])
         [] name = "is_busy" -> Ok(miso # <<255>>)

\* The calls the device saw during the j-th operation of the session.
Segment(j) ==
  SubSeq(wire, hist[j].from + 1,
         IF j < Len(hist) THEN hist[j + 1].from ELSE Len(wire))

\* C9: the transport keeps no state between calls.  After any sequence of
\* operations, succeeded or failed, the device has seen exactly the calls of
\* the operations in the order they were invoked, none missing, added, moved
\* to another operation or repeated; the calls of each operation are those
\* its own arguments determine, cut after the first failing call; and the
\* result of an operation is determined by what the device returned in it.
C9_Stateless ==
  /\ hist # <<>> => hist[1].from = 0
  /\ \A j \in 1..Len(hist) :
       LET seg  == Segment(j)
           full == FullCalls(hist[j].op, hist[j].inp)
           over == j < Len(hist) \/ pc = "idle"
       IN  /\ Len(seg) <= Len(full)
           /\ \A k \in 1..Len(seg) :
                /\ seg[k].fn = full[k].fn
                /\ seg[k].mosi = full[k].mosi
                /\ seg[k].rlen = full[k].rlen
                /\ k < Len(seg) => seg[k].res = "ok"
           /\ over => /\ seg # <<>>
                      /\ Len(seg) = Len(full) \/ seg[Len(seg)].res # "ok"
           /\ ~over => (seg = <<>> \/ seg[Len(seg)].res = "ok")
  /\ Returned => ret = ResultOf(op, rx, Calls[Len(Calls)].res)

\* A flush_card that failed at its second exchange was followed by a
\* write_data of 01 02 that succeeded: the device saw three calls.
C9_Witness ==
  /\ Len(hist) = 2
  /\ hist[1].op = "flush_card"
  /\ hist[2].op = "write_data"
  /\ hist[2].from = 2
  /\ wire[2].res = "E1"
  /\ Len(wire) = 3
  /\ wire[3] = [fn |-> "write", mosi |-> <<1, 2>>, rlen |-> 0, res |-> "ok"]
  /\ ret = Ok("unit")

====
